---------------------------- MODULE Spec2Model ----------------------------
(***************************************************************************)
(* A model of src/src/bat/benchmark.py: the Benchmark class that ingests   *)
(* raw benchmark tables into one long-form table (self.df), rescales the   *)
(* scores per scenario, adds aggregate scenarios and clears scenarios that *)
(* are repeated under several sources, together with the two name          *)
(* standardizers.                                                          *)
(*                                                                         *)
(* Representation.  A Python str is a sequence of one-character strings    *)
(* (so that replace, strip, split and the substring test `in` are          *)
(* computed, not assumed).  A float score is an exact rational <<n, d>>    *)
(* in lowest terms with d > 0; NaN is <<0, 0>>.  A DataFrame is a record   *)
(* [rows, columns]: the sequence of its rows in order and the set of its   *)
(* column names.                                                           *)
(***************************************************************************)
EXTENDS Integers, Sequences, FiniteSets, TLC

VARIABLES
    df,        \* self.df of the Benchmark that holds the table
    pre,       \* self.df as it was when the last call started
    call,      \* the last call: its name and its arguments
    res,       \* how the last call ended: "ok" or the exception it raised
    other,     \* the Benchmark built by the last ingestion (other.df)
    n_calls,   \* the number of calls made so far
    name_in,   \* the string handed to a name standardizer
    name_out   \* the results of applying the standardizer once, twice, ...

vars == <<df, pre, call, res, other, n_calls, name_in, name_out>>

(***************************************************************************)
(* Python str operations                                                   *)
(***************************************************************************)

\* the character U+03B2 (Greek small letter beta)
Beta == "beta-char"

\* The characters the model uses, in code point order (str comparison).
CodePoints ==
    << "\t", " ", "(", ")", "+", ",", "-", ".", "/",
       "0", "1", "2", "3", "4", "5", "6", "7", "8", "9",
       "A", "B", "C", "D", "E", "F", "G", "H", "I", "J", "K", "L", "M",
       "N", "O", "P", "Q", "R", "S", "T", "U", "V", "W", "X", "Y", "Z",
       "_",
       "a", "b", "c", "d", "e", "f", "g", "h", "i", "j", "k", "l", "m",
       "n", "o", "p", "q", "r", "s", "t", "u", "v", "w", "x", "y", "z",
       Beta >>

Ord(c) == CHOOSE i \in DOMAIN CodePoints : CodePoints[i] = c

UpperCase == 20 .. 45


\* str.lower() on one character
LowerChar(c) ==
    IF \E i \in UpperCase : CodePoints[i] = c
    THEN CodePoints[Ord(c) + 27]
    ELSE c

\* str.lower()
Lower(s) == [i \in DOMAIN s |-> LowerChar(s[i])]

Whitespace == {" ", "\t", "\n"}

RECURSIVE LStrip(_)
LStrip(s) ==
    IF s # <<>> /\ s[1] \in Whitespace THEN LStrip(Tail(s)) ELSE s

RECURSIVE RStrip(_)
RStrip(s) ==
    IF s # <<>> /\ s[Len(s)] \in Whitespace
    THEN RStrip(SubSeq(s, 1, Len(s) - 1))
    ELSE s

\* str.strip()
Strip(s) == RStrip(LStrip(s))

\* s.startswith(p)
StartsWith(s, p) == Len(p) <= Len(s) /\ SubSeq(s, 1, Len(p)) = p

\* s.replace(old, new) for a non-empty old: leftmost, non-overlapping
RECURSIVE Replace(_, _, _)
Replace(s, old, new) ==
    IF s = <<>> THEN <<>>
    ELSE IF StartsWith(s, old)
         THEN new \o Replace(SubSeq(s, Len(old) + 1, Len(s)), old, new)
         ELSE <<s[1]>> \o Replace(Tail(s), old, new)

\* the chain s.replace(r1[1], r1[2]).replace(r2[1], r2[2])... of a rule list
RECURSIVE ReplaceAll(_, _)
ReplaceAll(s, rules) ==
    IF rules = <<>> THEN s
    ELSE ReplaceAll(Replace(s, rules[1][1], rules[1][2]), Tail(rules))

\* s.split("/")[-1]: what follows the last "/"
RECURSIVE SplitLast(_)
SplitLast(s) ==
    IF \E i \in DOMAIN s : s[i] = "/"
    THEN SplitLast(Tail(s))
    ELSE s

\* sub in s, for two str
Contains(s, sub) ==
    \E i \in 0 .. (Len(s) - Len(sub)) : SubSeq(s, i + 1, i + Len(sub)) = sub

\* a < b, for two str
RECURSIVE StrLess(_, _)
StrLess(a, b) ==
    IF b = <<>> THEN FALSE
    ELSE IF a = <<>> THEN TRUE
    ELSE IF a[1] = b[1] THEN StrLess(Tail(a), Tail(b))
    ELSE Ord(a[1]) < Ord(b[1])

(***************************************************************************)
(* The name standardizers                                                  *)
(***************************************************************************)

ScenarioRules ==
    << << <<" ", " ", " ">>, <<"-">> >>,
       << <<" ", " ">>, <<"-">> >>,
       << <<" ">>, <<"-">> >>,
       << <<"(">>, <<>> >>,
       << <<")">>, <<>> >>,
       << <<"g", "s", "m", "-", "8", "k">>, <<"g", "s", "m", "8", "k">> >>,
       << <<"o", "p", "e", "n", "-", "b", "o", "o", "k">>, <<"o", "p", "e", "n">> >>,
       << <<"c", "l", "o", "s", "e", "d", "-", "b", "o", "o", "k">>, <<"c", "l", "o", "s", "e", "d">> >>,
       << <<"a", "g", "i", "-", "e", "v", "a", "l">>, <<"a", "g", "i", "e", "v", "a", "l">> >>,
       << <<"a", "l", "p", "a", "c", "a", "e", "v", "a", "l", "2", "-", "w", "r">>, <<"a", "l", "p", "a", "c", "a", "v", "2">> >>,
       << <<"a", "l", "p", "a", "c", "a", "v", "2", ",", "-", "l", "e", "n", "-", "a", "d", "j">>, <<"a", "l", "p", "a", "c", "a", "e", "v", "a", "l", "2", "-", "l", "c">> >>,
       << <<"h", "s", "w", "a", "g">>, <<"h", "e", "l", "l", "a", "s", "w", "a", "g">> >>,
       << <<"o", "b", "q", "a">>, <<"o", "p", "e", "n", "b", "o", "o", "k", "q", "a">> >>,
       << <<"w", "i", "n", "o", "g", "r", "a", "n", "d", "e">>, <<"w", "i", "n", "o", "g">> >>,
       << <<"w", "i", "n", "o", "g">>, <<"w", "i", "n", "o", "g", "r", "a", "n", "d", "e">> >>,
       << <<"-">>, <<"_">> >> >>

ModelRulesBeforeSplit ==
    << << <<" ", " ", " ">>, <<"-">> >>,
       << <<" ", " ">>, <<"-">> >>,
       << <<" ">>, <<"-">> >>,
       << <<"(">>, <<>> >>,
       << <<")">>, <<>> >>,
       << <<Beta>>, <<"b", "e", "t", "a">> >>,
       << <<"c", "o", "m", "m", "a", "n", "d", "-", "r", "+">>, <<"c", "o", "m", "m", "a", "n", "d", "-", "r", "-", "p", "l", "u", "s">> >>,
       << <<"d", "b", "r", "x", "-", "i", "n", "s", "t">>, <<"d", "b", "r", "x", "-", "i", "n", "s", "t", "r", "u", "c", "t">> >>,
       << <<"-", "h", "f">>, <<>> >>,
       << <<"-">>, <<"_">> >>,
       << <<"l", "l", "a", "m", "a", "_", "3">>, <<"l", "l", "a", "m", "a", "3">> >>,
       << <<"u", "l", "2">>, <<"f", "l", "a", "n", "-", "u", "l", "2">> >> >>

ModelRulesAfterSplit ==
    << << <<"m", "e", "t", "a", "_">>, <<>> >>,
       << <<".">>, <<"_">> >>,
       << <<"v", "0", "1">>, <<"v", "0", "_", "1">> >>,
       << <<"v", "0", "2">>, <<"v", "0", "_", "2">> >>,
       << <<"v", "0", "3">>, <<"v", "0", "_", "3">> >>,
       << <<"w", "m", "l", "/">>, <<>> >> >>

\* assets/prettified_bencmark_names.json: canonical key -> display name
PrettifiedNames == { << <<"u">>, <<"U">> >> }

get_nice_benchmark_name(bench_name) ==
    IF \E p \in PrettifiedNames : p[1] = bench_name
    THEN (CHOOSE p \in PrettifiedNames : p[1] = bench_name)[2]
    ELSE bench_name

standardize_scenario_name(name) ==
    get_nice_benchmark_name(ReplaceAll(Lower(Strip(name)), ScenarioRules))

standardize_model_name(name) ==
    ReplaceAll(SplitLast(ReplaceAll(Lower(Strip(name)), ModelRulesBeforeSplit)),
               ModelRulesAfterSplit)

(***************************************************************************)
(* float arithmetic, as exact rationals                                    *)
(***************************************************************************)

NaN == <<0, 0>>

IsNaN(x) == x[2] = 0

Abs(i) == IF i < 0 THEN -i ELSE i

RECURSIVE GCD(_, _)
GCD(a, b) == IF b = 0 THEN a ELSE GCD(b, a % b)

\* the rational n / d in lowest terms, for d # 0
Rat(n, d) ==
    LET g == GCD(Abs(n), Abs(d))
        sgn == IF d < 0 THEN -1 ELSE 1
    IN  <<sgn * (n \div g), sgn * (d \div g)>>

Float(i) == <<i, 1>>

RSub(x, y) == Rat(x[1] * y[2] - y[1] * x[2], x[2] * y[2])

RAdd(x, y) == Rat(x[1] * y[2] + y[1] * x[2], x[2] * y[2])

RDiv(x, y) == Rat(x[1] * y[2], x[2] * y[1])

RLess(x, y) == x[1] * y[2] < y[1] * x[2]

RECURSIVE RSum(_)
RSum(xs) == IF xs = <<>> THEN Float(0) ELSE RAdd(xs[1], RSum(Tail(xs)))

\* Series.mean() of a non-empty sequence of floats
RMean(xs) == RDiv(RSum(xs), Float(Len(xs)))

\* Series.max() / Series.min(): NaN is skipped, and is the result when nothing is left
RMax(xs) ==
    LET S == {xs[i] : i \in {j \in DOMAIN xs : ~IsNaN(xs[j])}}
    IN  IF S = {} THEN NaN ELSE CHOOSE x \in S : \A y \in S : ~RLess(x, y)

RMin(xs) ==
    LET S == {xs[i] : i \in {j \in DOMAIN xs : ~IsNaN(xs[j])}}
    IN  IF S = {} THEN NaN ELSE CHOOSE x \in S : \A y \in S : ~RLess(y, x)

(***************************************************************************)
(* DataFrames                                                              *)
(***************************************************************************)

\* self.df = None
NoneDF == [rows |-> <<>>, columns |-> {}]

\* the value, in column aggragated_from, of a row whose frame had no such column
AggNaN == << <<"NaN">> >>

required_columns == {"model", "scenario", "score", "source", "aggragated_from"}

\* the subsequence of the elements that satisfy Test, in order
RECURSIVE SelectRows(_, _)
SelectRows(rows, keep) ==
    IF rows = <<>> THEN <<>>
    ELSE IF rows[1] \in keep
         THEN <<rows[1]>> \o SelectRows(Tail(rows), keep)
         ELSE SelectRows(Tail(rows), keep)

RowSet(rows) == {rows[i] : i \in DOMAIN rows}

\* a < b for two group keys (tuples of str of the same length)
RECURSIVE KeyLess(_, _)
KeyLess(a, b) ==
    IF a = <<>> THEN FALSE
    ELSE IF a[1] = b[1] THEN KeyLess(Tail(a), Tail(b))
    ELSE StrLess(a[1], b[1])

\* the keys of a groupby, in its (sorted) group order
RECURSIVE SortKeys(_)
SortKeys(S) ==
    IF S = {} THEN <<>>
    ELSE LET k == CHOOSE x \in S : \A y \in S \ {x} : KeyLess(x, y)
         IN  <<k>> \o SortKeys(S \ {k})

\* pd.melt(df, id_vars=["model"], var_name="scenario", value_name="score"):
\* one row per cell, the value columns in order and the rows in order in each
Melt(raw) ==
    LET nm == Len(raw.models)
        ns == Len(raw.scenarios)
    IN  [k \in 1 .. (nm * ns) |->
            LET j == ((k - 1) \div nm) + 1
                i == ((k - 1) % nm) + 1
            IN  [model |-> raw.models[i], scenario |-> raw.scenarios[j],
                 score |-> raw.cells[i][j]]]

\* df.replace("-", np.nan) and astype(float) on one score cell
ParseScore(cell) == IF cell.dash THEN NaN ELSE Float(cell.v)

\* assets/lower_is_better_benchmarks.txt, each line with ".csv" appended
LowerIsBetterLines == { <<"l">> }

lower_os_better_for_source(source_name) ==
    \E line \in LowerIsBetterLines : source_name = line \o <<".", "c", "s", "v">>

(***************************************************************************)
(* normalize_scores_per_scenario                                           *)
(***************************************************************************)

\* the scores of the rows of one scenario, in order
ScenarioScores(rows, scenario) ==
    LET g == SelectRows(rows, {r \in RowSet(rows) : r.scenario = scenario})
    IN  [i \in DOMAIN g |-> g[i].score]

\* normalize(group), for one score x of a group with the given min and max
NormalizeScore(x, min_score, max_score) ==
    IF max_score = min_score
    THEN Float(1)
    ELSE RDiv(RSub(x, min_score), RSub(max_score, min_score))

\* self.df["score"] = 1 - self.df["score"] when lower_is_better
Orient(x, lower_is_better) ==
    IF lower_is_better THEN RSub(Float(1), x) ELSE x

\* the rows after normalize_scores_per_scenario
NormalizedRows(rows, lower_is_better) ==
    [i \in DOMAIN rows |->
        LET sc == ScenarioScores(rows, rows[i].scenario)
        IN  [rows[i] EXCEPT !.score =
                Orient(NormalizeScore(rows[i].score, RMin(sc), RMax(sc)),
                       lower_is_better)]]

\* normalize_scores_per_scenario: the frame it leaves, or the exception
normalize_scores_per_scenario(frame, lower_is_better) ==
    IF "score" \notin frame.columns
    THEN [res |-> "ValueError", df |-> frame]
    ELSE [res |-> "ok",
          df |-> [frame EXCEPT !.rows = NormalizedRows(frame.rows, lower_is_better)]]

(***************************************************************************)
(* Ingestion: Benchmark(df, data_source), assign_df, validation, extend    *)
(***************************************************************************)

Key(r) == <<r.model, r.scenario, r.source>>

\* df.duplicated(subset=["model", "scenario", "source"], keep=False) finds a row
HasDuplicates(rows) ==
    \E i, j \in DOMAIN rows : i # j /\ Key(rows[i]) = Key(rows[j])

\* df.groupby(["model", "scenario", "source"], as_index=False)["score"].max():
\* one row per key, in key order, with the columns model, scenario, source, score
CollapseDuplicates(rows) ==
    LET keys == SortKeys({Key(r) : r \in RowSet(rows)})
    IN  [rows |->
            [k \in DOMAIN keys |->
                LET g == SelectRows(rows, {r \in RowSet(rows) : Key(r) = keys[k]})
                IN  [model |-> keys[k][1], scenario |-> keys[k][2],
                     source |-> keys[k][3],
                     score |-> RMax([i \in DOMAIN g |-> g[i].score]),
                     aggragated_from |-> AggNaN]],
         columns |-> {"model", "scenario", "source", "score"}]

\* validate_dataframe_post_formatting: the frame it leaves, or the exception
validate_dataframe_post_formatting(frame) ==
    LET f0 == [frame EXCEPT !.columns = @ \ {"Unnamed: 0"}]
    IN  IF (f0.columns \ {"tag"}) # required_columns
        THEN [res |-> "ValueError", df |-> f0]
        ELSE [res |-> "ok",
              df |-> IF HasDuplicates(f0.rows) THEN CollapseDuplicates(f0.rows)
                     ELSE f0]

\* df.dropna(inplace=True): the rows with no NaN in a column of the frame
DropNa(frame) ==
    [frame EXCEPT !.rows =
        SelectRows(@, {r \in RowSet(@) :
            /\ ~IsNaN(r.score)
            /\ ("aggragated_from" \in frame.columns => r.aggragated_from # AggNaN)})]

\* assign_df up to validation: the melted rows with the "-" scores replaced
\* by NaN, the names standardized, aggragated_from and source set
FormattedRows(raw, data_source, normalized_names) ==
    LET melted == Melt(raw)
    IN  [i \in DOMAIN melted |->
            [model |-> IF normalized_names THEN melted[i].model
                       ELSE standardize_model_name(melted[i].model),
             scenario |-> IF normalized_names THEN melted[i].scenario
                          ELSE standardize_scenario_name(melted[i].scenario),
             score |-> ParseScore(melted[i].score),
             source |-> data_source,
             aggragated_from |-> <<>>]]

\* assign_df: the frame of the new Benchmark, or the exception
assign_df(raw, data_source, normalized_names) ==
    LET v == validate_dataframe_post_formatting(
                 [rows |-> FormattedRows(raw, data_source, normalized_names),
                  columns |-> required_columns])
    IN  IF v.res # "ok" THEN v
        ELSE IF lower_os_better_for_source(data_source)
             THEN normalize_scores_per_scenario(DropNa(v.df), TRUE)
             ELSE [res |-> "ok", df |-> DropNa(v.df)]

\* Benchmark(df, data_source, normalized_names): a raw table with no row
\* leaves self.df = None
NewBenchmark(raw, data_source, normalized_names) ==
    IF Len(raw.models) > 0
    THEN assign_df(raw, data_source, normalized_names)
    ELSE [res |-> "ok", df |-> NoneDF]

\* pd.concat([a, b]): the rows of a then those of b, under the union of the
\* columns; a None operand is skipped
Concat(a, b) ==
    [rows |-> a.rows \o b.rows, columns |-> a.columns \cup b.columns]

\* extend: self.df after self.extend(other)
extend(self_df, other_df) ==
    IF self_df # NoneDF THEN Concat(self_df, other_df) ELSE other_df

(***************************************************************************)
(* add_aggregate                                                           *)
(***************************************************************************)

\* Series.unique(): the distinct values in order of first appearance
RECURSIVE Unique(_)
Unique(xs) ==
    IF xs = <<>> THEN <<>>
    ELSE LET front == Unique(SubSeq(xs, 1, Len(xs) - 1))
             x == xs[Len(xs)]
         IN  IF \E i \in DOMAIN front : front[i] = x THEN front ELSE Append(front, x)

Elems(xs) == {xs[i] : i \in DOMAIN xs}

Column(rows, c) == [i \in DOMAIN rows |-> rows[i][c]]

Min2(a, b) == IF a < b THEN a ELSE b

\* win_rate(x) counting the scores x ties with, x itself among them
win_rate_ties(x, series) ==
    RDiv(Float(Cardinality({i \in DOMAIN series : ~RLess(x, series[i])})),
         Float(Len(series) - 1))

\* win_rate(x) of calculate_win_rate(series), for a series of two scores or more
win_rate(x, series) ==
    RDiv(Float(Cardinality({i \in DOMAIN series : RLess(series[i], x)})),
         Float(Len(series) - 1))

\* df.groupby(["model"])["scenario"].count() >= the threshold: the rows of
\* the model are counted
models_to_consider(rows, threshold) ==
    {m \in Elems(Column(rows, "model")) :
        Cardinality({i \in DOMAIN rows : rows[i].model = m}) >= threshold}

\* the rows add_aggregate appends for the considered rows: one per model, in
\* model order, with the mean score or the mean win rate
AggregateRows(rows, new_col_name, mean_or_mwr, aggragated_from, source) ==
    LET models == SortKeys({<<m>> : m \in Elems(Column(rows, "model"))})
    IN  [k \in DOMAIN models |->
            LET mine == {i \in DOMAIN rows : rows[i].model = models[k][1]}
                idx == SelectRows([i \in DOMAIN rows |-> i], mine)
                wr == [j \in DOMAIN idx |->
                          win_rate(rows[idx[j]].score,
                                   ScenarioScores(rows, rows[idx[j]].scenario))]
                sc == [j \in DOMAIN idx |-> rows[idx[j]].score]
            IN  [model |-> models[k][1],
                 scenario |-> new_col_name,
                 score |-> IF mean_or_mwr = "mwr" THEN RMean(wr) ELSE RMean(sc),
                 source |-> source,
                 aggragated_from |-> aggragated_from]]

\* the source resolved without the check that the table has one source
AggSource_AnySource(agg_source_name, sources) ==
    IF agg_source_name # <<>>
    THEN [res |-> "ok", source |-> agg_source_name]
    ELSE [res |-> "ok", source |-> CHOOSE x \in sources : TRUE]

\* the source of the aggregate rows: agg_source_name if given, else the one
\* source of the table, else IOError
AggSource(agg_source_name, sources) ==
    IF agg_source_name # <<>>
    THEN [res |-> "ok", source |-> agg_source_name]
    ELSE IF Cardinality(sources) = 1
    THEN [res |-> "ok", source |-> CHOOSE x \in sources : TRUE]
    ELSE [res |-> "IOError", source |-> <<>>]

\* add_aggregate: self.df as the call leaves it, or the exception it raises
add_aggregate(self_df, new_col_name, scenario_blacklist, scenario_whitelist, mean_or_mwr, agg_source_name, min_scenario) ==
    LET rows == self_df.rows
        df_for_agg ==
            IF scenario_blacklist # <<>>
            THEN SelectRows(rows, {r \in RowSet(rows) :
                                     r.scenario \notin Elems(scenario_blacklist)})
            ELSE SelectRows(rows, {r \in RowSet(rows) :
                                     r.scenario \in Elems(scenario_whitelist)})
        n_scenario_for_aggregate == Cardinality(Elems(Column(df_for_agg, "scenario")))
        threshold == Min2(min_scenario, n_scenario_for_aggregate)
        keep == models_to_consider(df_for_agg, threshold)
        considered == SelectRows(df_for_agg, {r \in RowSet(df_for_agg) : r.model \in keep})
        sources == Elems(Column(rows, "source"))
        aggragated_from ==
            LET u == Unique(Column(rows, "scenario"))
            IN  SelectRows(u, Elems(u) \ Elems(scenario_blacklist))
        src == AggSource(agg_source_name, sources)
    IN  IF scenario_blacklist # <<>> /\ scenario_whitelist # <<>>
        THEN [res |-> "AssertionError", df |-> self_df]
        ELSE IF scenario_blacklist = <<>> /\ scenario_whitelist = <<>>
        THEN [res |-> "UnboundLocalError", df |-> self_df]
        ELSE IF \E r \in RowSet(considered) :
                    Len(ScenarioScores(considered, r.scenario)) <= 1
        THEN [res |-> "AssertionError", df |-> self_df]
        ELSE IF src.res # "ok"
        THEN [res |-> src.res, df |-> self_df]
        ELSE [res |-> "ok",
              df |-> Concat(self_df,
                        [rows |-> AggregateRows(considered, new_col_name, mean_or_mwr,
                                                aggragated_from, src.source),
                         columns |-> required_columns])]

(***************************************************************************)
(* clear_repeated_scenarios                                                *)
(***************************************************************************)

\* self.df["scenario"] + "__" + self.df["source"]
scenario__source(r) == r.scenario \o <<"_", "_">> \o r.source

RECURSIVE SumInts(_)
SumInts(xs) == IF xs = <<>> THEN 0 ELSE xs[1] + SumInts(Tail(xs))

\* pd.crosstab(scenario__source, model): the rows of the pair and the model
cross_tab(rows, ss, model) ==
    Cardinality({i \in DOMAIN rows :
                    scenario__source(rows[i]) = ss /\ rows[i].model = model})

\* cross_tab.dot(cross_tab.T).sum(axis=1)[ss]
scenario__source_counts(rows, ss) ==
    LET all_ss == Unique([i \in DOMAIN rows |-> scenario__source(rows[i])])
        models == Unique(Column(rows, "model"))
    IN  SumInts([a \in DOMAIN all_ss |->
            SumInts([m \in DOMAIN models |->
                cross_tab(rows, ss, models[m]) * cross_tab(rows, all_ss[a], models[m])])])

\* key in series, for a Series: the key is looked up among the index labels,
\* which are the integer row labels; a str equals none of them
StrEqualsLabel(key, label) == FALSE

SeriesContains(key, labels) == \E l \in labels : StrEqualsLabel(key, l)

\* Series.argmax(): the first position of the maximum
ArgMax(xs) ==
    CHOOSE i \in DOMAIN xs :
        /\ \A j \in DOMAIN xs : xs[j] <= xs[i]
        /\ \A j \in 1 .. (i - 1) : xs[j] < xs[i]

\* df.drop_duplicates(["scenario", "source"]): the first row of each pair
FirstOfPairs(rows) ==
    SelectRows([i \in DOMAIN rows |-> i],
        {i \in DOMAIN rows :
            \A j \in 1 .. (i - 1) :
                <<rows[j].scenario, rows[j].source>> # <<rows[i].scenario, rows[i].source>>})

\* the scenario__source values one pass of the loop adds to scenarios_source_to_drop
cur_scenarios_source_to_drop(rows, scenario, source_to_keep) ==
    LET firsts == FirstOfPairs(rows)
        mine == SelectRows(firsts, {i \in Elems(firsts) : rows[i].scenario = scenario})
        scenario_df == [k \in DOMAIN mine |-> rows[mine[k]]]
        all_ss == Unique([k \in DOMAIN scenario_df |-> scenario__source(scenario_df[k])])
        counts == [k \in DOMAIN scenario_df |->
                      scenario__source_counts(rows, scenario__source(scenario_df[k]))]
    IN  IF Len(scenario_df) <= 1 THEN <<>>
        ELSE IF source_to_keep # <<>> /\ SeriesContains(source_to_keep, Elems(mine))
        THEN \* the kept values are a Series: `not in` looks among its labels
             SelectRows(all_ss, {x \in Elems(all_ss) : ~SeriesContains(x, Elems(mine))})
        ELSE LET scenario_source_to_keep == scenario__source(scenario_df[ArgMax(counts)])
             IN  SelectRows(all_ss, {x \in Elems(all_ss) :
                                        ~Contains(scenario_source_to_keep, x)})

\* clear_repeated_scenarios: self.df as the call leaves it
clear_repeated_scenarios(self_df, source_to_keep) ==
    LET rows == self_df.rows
        scenarios == SortKeys({<<r.scenario>> : r \in RowSet(rows)})
        dropped == UNION {Elems(cur_scenarios_source_to_drop(rows, scenarios[k][1],
                                                             source_to_keep)) :
                             k \in DOMAIN scenarios}
    IN  [res |-> "ok",
         df |-> [self_df EXCEPT !.rows =
                    SelectRows(rows, {r \in RowSet(rows) :
                                         scenario__source(r) \notin dropped})]]

(***************************************************************************)
(* The raw tables and names the calls are given                            *)
(***************************************************************************)

\* the most rows the table is grown to by ingestion
MaxRows == 4

\* the raw scores
ScoreVals == {1, 2}

\* a cell of a raw wide table: the sentinel "-" or a number
Cells == {[dash |-> TRUE, v |-> 0]} \cup {[dash |-> FALSE, v |-> x] : x \in ScoreVals}

\* the raw wide tables with the given model column and scenario columns
WideTables(models, scenarios) ==
    {[models |-> models, scenarios |-> scenarios, cells |-> c] :
        c \in [DOMAIN models -> [DOMAIN scenarios -> Cells]]}

ModelM == <<"m">>
ModelN == <<"n">>
ScenarioS == <<"s">>
ScenarioT == <<"t">>
SourceA == <<"a">>
SourceAB == <<"a", "b">>
SourceL == <<"l", ".", "c", "s", "v">>

\* the tables of the catalog: two models on two scenarios
CatalogTables == WideTables(<<ModelM, ModelN>>, <<ScenarioS, ScenarioT>>)

\* the raw tables handed to Benchmark(): those of the catalog, tables that
\* spell one model in two ways, and the table with no row
RawTables ==
    CatalogTables
    \cup WideTables(<<ModelM, <<"M">> >>, <<ScenarioS>>)
    \cup WideTables(<<>>, <<ScenarioS>>)

Sources == {SourceA, SourceAB, SourceL}

\* Benchmark(raw, data_source, normalized_names) for every argument the
\* calls are given, computed once
Benchmarks ==
    {[raw |-> raw, data_source |-> data_source, normalized_names |-> normalized_names,
      b |-> NewBenchmark(raw, data_source, normalized_names)] :
        raw \in RawTables, data_source \in Sources, normalized_names \in BOOLEAN}

\* the most ingestions of one behaviour
MaxIngests == 2

(***************************************************************************)
(* Specification Spec: a table grown by ingestion                          *)
(***************************************************************************)

NoNames == name_in = <<>> /\ name_out = <<>>

Init ==
    /\ df = NoneDF
    /\ pre = NoneDF
    /\ call = [op |-> "init"]
    /\ res = "ok"
    /\ other = NoneDF
    /\ n_calls = 0
    /\ NoNames

\* self.extend(Benchmark(raw, data_source=data_source, normalized_names=...)),
\* as load_local_catalog does for every file
Ingest ==
    \E c \in Benchmarks :
        /\ n_calls < MaxIngests
        /\ Len(df.rows) + Len(c.b.df.rows) <= MaxRows
        /\ pre' = df
        /\ call' = [op |-> "ingest", raw |-> c.raw, data_source |-> c.data_source,
                    normalized_names |-> c.normalized_names]
        /\ res' = c.b.res
        /\ other' = c.b.df
        /\ df' = IF c.b.res = "ok" THEN extend(df, c.b.df) ELSE df
        /\ n_calls' = n_calls + 1
        /\ UNCHANGED <<name_in, name_out>>

Next == Ingest

Spec == Init /\ [][Next]_vars

(***************************************************************************)
(* Specification SpecCalls: one call on a table loaded from the catalog    *)
(***************************************************************************)

\* the largest min_scenario_for_models_to_appear_in_agg
MaxMinScenarios == 2

NewColName == <<"g">>
SourceX == <<"x">>

\* the frame Benchmark() builds from a catalog table read from a file
CatalogFrames(data_source) ==
    {c.b.df : c \in {e \in Benchmarks :
                        /\ e.raw \in CatalogTables
                        /\ e.data_source = data_source
                        /\ ~e.normalized_names
                        /\ e.b.res = "ok"}}

\* the tables load_local_catalog leaves: one file ingested, or two files
LoadedTables ==
    {t \in CatalogFrames(SourceA)
           \cup {extend(a, b) : a \in CatalogFrames(SourceA), b \in CatalogFrames(SourceAB)} :
        Len(t.rows) \in 1 .. MaxRows}

InitLoaded ==
    /\ df \in LoadedTables
    /\ pre = df
    /\ call = [op |-> "load"]
    /\ res = "ok"
    /\ other = NoneDF
    /\ n_calls = 0
    /\ NoNames

\* self.normalize_scores_per_scenario(lower_is_better)
Normalize ==
    \E lower_is_better \in BOOLEAN :
        LET r == normalize_scores_per_scenario(df, lower_is_better)
        IN  /\ call.op = "load"
            /\ pre' = df
            /\ call' = [op |-> "normalize_scores_per_scenario",
                        lower_is_better |-> lower_is_better]
            /\ res' = r.res
            /\ df' = r.df
            /\ n_calls' = n_calls + 1
            /\ UNCHANGED <<other, name_in, name_out>>

\* the scenario_blacklist and scenario_whitelist arguments
ScenarioFilters ==
    { [blacklist |-> <<>>, whitelist |-> <<>>],
      [blacklist |-> <<>>, whitelist |-> <<ScenarioS, ScenarioT>>],
      [blacklist |-> <<>>, whitelist |-> <<ScenarioS>>],
      [blacklist |-> <<ScenarioT>>, whitelist |-> <<>>],
      [blacklist |-> <<NewColName>>, whitelist |-> <<>>],
      [blacklist |-> <<ScenarioT>>, whitelist |-> <<ScenarioS>>] }

\* self.add_aggregate(new_col_name, scenario_blacklist, scenario_whitelist,
\*                    mean_or_mwr, agg_source_name, min_scenario_for_models_to_appear_in_agg)
AddAggregate ==
    \E f \in ScenarioFilters, mean_or_mwr \in {"mwr", "mean"},
       agg_source_name \in {<<>>, SourceX}, min_scenario \in 0 .. MaxMinScenarios :
        LET r == add_aggregate(df, NewColName, f.blacklist, f.whitelist,
                               mean_or_mwr, agg_source_name, min_scenario)
        IN  /\ call.op = "load"
            /\ pre' = df
            /\ call' = [op |-> "add_aggregate", scenario_blacklist |-> f.blacklist,
                        scenario_whitelist |-> f.whitelist, mean_or_mwr |-> mean_or_mwr,
                        agg_source_name |-> agg_source_name,
                        min_scenario |-> min_scenario]
            /\ res' = r.res
            /\ df' = r.df
            /\ n_calls' = n_calls + 1
            /\ UNCHANGED <<other, name_in, name_out>>

\* self.clear_repeated_scenarios(source_to_keep)
ClearRepeatedScenarios ==
    \E source_to_keep \in {<<>>, SourceA, SourceAB} :
        LET r == clear_repeated_scenarios(df, source_to_keep)
        IN  /\ call.op = "load"
            /\ pre' = df
            /\ call' = [op |-> "clear_repeated_scenarios",
                        source_to_keep |-> source_to_keep]
            /\ res' = r.res
            /\ df' = r.df
            /\ n_calls' = n_calls + 1
            /\ UNCHANGED <<other, name_in, name_out>>

NextCalls == Normalize \/ AddAggregate \/ ClearRepeatedScenarios

SpecCalls == InitLoaded /\ [][NextCalls]_vars

(***************************************************************************)
(* Specification SpecNames: the name standardizers applied to a string     *)
(***************************************************************************)

\* the longest input string
MaxNameLen == 3

\* the most applications of a standardizer to one string
MaxApplications == 2

NameChars == {"u", "l", "2", "U", " ", "-", "(", "/"}

NameInputs == UNION {[1 .. n -> NameChars] : n \in 0 .. MaxNameLen}

NoTable ==
    /\ df = NoneDF
    /\ pre = NoneDF
    /\ other = NoneDF
    /\ res = "ok"
    /\ n_calls = 0

InitNames ==
    /\ NoTable
    /\ call = [op |-> "init"]
    /\ name_in \in NameInputs
    /\ name_out = <<>>

\* the string the next application is given: the input, then the last result
NameArg == IF name_out = <<>> THEN name_in ELSE name_out[Len(name_out)]

StandardizeModel ==
    /\ call.op \in {"init", "standardize_model_name"}
    /\ Len(name_out) < MaxApplications
    /\ name_out' = Append(name_out, standardize_model_name(NameArg))
    /\ call' = [op |-> "standardize_model_name"]
    /\ UNCHANGED <<df, pre, res, other, n_calls, name_in>>

StandardizeScenario ==
    /\ call.op \in {"init", "standardize_scenario_name"}
    /\ Len(name_out) < MaxApplications
    /\ name_out' = Append(name_out, standardize_scenario_name(NameArg))
    /\ call' = [op |-> "standardize_scenario_name"]
    /\ UNCHANGED <<df, pre, res, other, n_calls, name_in>>

NextNames == StandardizeModel \/ StandardizeScenario

SpecNames == InitNames /\ [][NextNames]_vars

(***************************************************************************)
(* The claims                                                              *)
(***************************************************************************)

\* C9: applying a standardizer twice gives what applying it once gives, for
\* standardize_model_name and for standardize_scenario_name.
C9_Idempotent ==
    Len(name_out) = 2 => name_out[2] = name_out[1]

\* C4: when the same raw table is ingested twice with the same source name, the
\* table holds, for that source, as many records as the raw table has distinct
\* (model, scenario) measurements: nothing is counted twice.
C4_NotDoubled ==
    [][(call.op = "ingest" /\ call' = call /\ n_calls = 1 /\ res' = "ok")
         => Cardinality({i \in DOMAIN df'.rows : df'.rows[i].source = call.data_source})
            = Cardinality({<<r.model, r.scenario>> : r \in RowSet(other'.rows)})]_vars

\* C5: ingesting a raw table with duplicate (model, scenario, source) rows does
\* not fail, leaves one record per triple with the maximum score of its group
\* (read before the rescaling a lower-is-better source gets afterwards), and
\* every record has the fields model, scenario, score, source and
\* aggragated_from, with aggragated_from empty.
C5_DuplicatesCollapsed ==
    (call.op = "ingest"
     /\ HasDuplicates(FormattedRows(call.raw, call.data_source, call.normalized_names)))
    => LET raw_rows == FormattedRows(call.raw, call.data_source, call.normalized_names)
           measured == {r \in RowSet(raw_rows) : ~IsNaN(r.score)}
       IN  /\ res = "ok"
           /\ ~HasDuplicates(other.rows)
           /\ {Key(r) : r \in RowSet(other.rows)} = {Key(r) : r \in measured}
           /\ ~lower_os_better_for_source(call.data_source) =>
                \A r \in RowSet(other.rows) :
                    /\ \E q \in measured : Key(q) = Key(r) /\ q.score = r.score
                    /\ \A q \in measured : Key(q) = Key(r) => ~RLess(r.score, q.score)
           /\ other.rows # <<>> => other.columns = required_columns
           /\ \A r \in RowSet(other.rows) : r.aggragated_from = <<>>

\* what the claims about add_aggregate and clear_repeated_scenarios read

Zero == Float(0)
One == Float(1)

InUnit(x) == ~RLess(x, Zero) /\ ~RLess(One, x)

\* the rows the last call appended to the table
Appended == SubSeq(df.rows, Len(pre.rows) + 1, Len(df.rows))

\* the positions of the rows of `rows` a scenario filter selects
SelectedIdx(rows, blacklist, whitelist) ==
    {i \in DOMAIN rows :
        IF blacklist # <<>> THEN \A k \in DOMAIN blacklist : blacklist[k] # rows[i].scenario
        ELSE \E k \in DOMAIN whitelist : whitelist[k] = rows[i].scenario}

ExactlyOneFilter ==
    (call.scenario_blacklist = <<>>) # (call.scenario_whitelist = <<>>)

\* the selected rows whose scores are compared: those of the models that have
\* at least min(min_scenario, selected scenarios) selected rows
ComparedIdx ==
    LET rows == pre.rows
        sel == SelectedIdx(rows, call.scenario_blacklist, call.scenario_whitelist)
        n_sel == Cardinality({rows[i].scenario : i \in sel})
        least == IF call.min_scenario < n_sel THEN call.min_scenario ELSE n_sel
    IN  {i \in sel : Cardinality({j \in sel : rows[j].model = rows[i].model}) >= least}

\* N: the scores compared in the scenario of row i
NCompared(i) ==
    Cardinality({j \in ComparedIdx : pre.rows[j].scenario = pre.rows[i].scenario})

\* the compared scores of the scenario of row i that the score of row i beats
Wins(i) ==
    Cardinality({j \in ComparedIdx :
                    /\ pre.rows[j].scenario = pre.rows[i].scenario
                    /\ RLess(pre.rows[j].score, pre.rows[i].score)})

RECURSIVE WinRateSum(_)
WinRateSum(S) ==
    IF S = {} THEN Zero
    ELSE LET i == CHOOSE x \in S : TRUE
         IN  RAdd(RDiv(Float(Wins(i)), Float(NCompared(i) - 1)), WinRateSum(S \ {i}))

SomeSingleton == \E i \in ComparedIdx : NCompared(i) = 1

\* the rows of a scenario, in order
RowsOf(rows, scenario) ==
    SelectRows(rows, {r \in RowSet(rows) : r.scenario = scenario})

SourcesOf(rows, scenario) == {r.source : r \in RowSet(RowsOf(rows, scenario))}

\* the popularity of a (scenario, source) pair: the row sum of the model
\* co-occurrence matrix, that is the pairs (a row of the pair, a row of the
\* table with the same model)
Popularity(rows, scenario, source) ==
    Cardinality({p \in (DOMAIN rows) \X (DOMAIN rows) :
                    /\ rows[p[1]].scenario = scenario
                    /\ rows[p[1]].source = source
                    /\ rows[p[2]].model = rows[p[1]].model})

\* C1: after normalize_scores_per_scenario, with lower_is_better
\* false or true, a scenario with two distinct raw scores has minimum 0 and
\* maximum 1, and a scenario whose raw scores are all equal has every score 1.
C1_NormalizedRange ==
    (call.op = "normalize_scores_per_scenario" /\ res = "ok") =>
        /\ Len(df.rows) = Len(pre.rows)
        /\ \A i \in DOMAIN pre.rows :
            LET g == {j \in DOMAIN pre.rows : pre.rows[j].scenario = pre.rows[i].scenario}
                raw == {pre.rows[j].score : j \in g}
                new == {df.rows[j].score : j \in g}
            IN  /\ df.rows[i] = [pre.rows[i] EXCEPT !.score = df.rows[i].score]
                /\ IF Cardinality(raw) >= 2
                   THEN Zero \in new /\ One \in new /\ \A x \in new : InUnit(x)
                   ELSE new = {One}

\* C2: add_aggregate gives an aggregate record to exactly the models whose
\* number of DISTINCT selected scenarios is at least
\* min(min_scenarios_present, number of selected scenarios).
C2_CoverageByDistinctScenarios ==
    (call.op = "add_aggregate" /\ res = "ok") =>
        LET rows == pre.rows
            sel == SelectedIdx(rows, call.scenario_blacklist, call.scenario_whitelist)
            n_sel == Cardinality({rows[i].scenario : i \in sel})
            least == IF call.min_scenario < n_sel THEN call.min_scenario ELSE n_sel
            covered(m) == Cardinality({rows[i].scenario : i \in {j \in sel : rows[j].model = m}})
        IN  {r.model : r \in RowSet(Appended)}
            = {m \in {rows[i].model : i \in sel} : covered(m) >= least}

\* C3: add_aggregate with neither a blacklist nor a whitelist succeeds and gives
\* every model that passes the coverage filter one aggregate record over all
\* the scenarios; with both lists it is rejected.
C3_NoFilterMeansAll ==
    call.op = "add_aggregate" =>
        /\ (call.scenario_blacklist # <<>> /\ call.scenario_whitelist # <<>>)
            => (res = "AssertionError" /\ df = pre)
        /\ ( /\ call.scenario_blacklist = <<>>
             /\ call.scenario_whitelist = <<>>
             /\ call.min_scenario = 0
             /\ \A r \in RowSet(pre.rows) : Len(RowsOf(pre.rows, r.scenario)) >= 2
             /\ (call.agg_source_name # <<>>
                 \/ Cardinality({r.source : r \in RowSet(pre.rows)}) = 1) )
            => /\ res = "ok"
               /\ \A m \in {r.model : r \in RowSet(pre.rows)} :
                    Cardinality({k \in DOMAIN Appended : Appended[k].model = m}) = 1

\* C6: after clear_repeated_scenarios with no preferred source every scenario
\* is left with one source; for a scenario that had several, the records of
\* the pair that is kept survive, the pair has the highest popularity of the
\* scenario's pairs, and the records of the other pairs are removed, whatever
\* the source names are; a scenario with one source keeps its records.
C6_OneSourcePerScenario ==
    (call.op = "clear_repeated_scenarios" /\ call.source_to_keep = <<>>) =>
        \A scenario \in {r.scenario : r \in RowSet(pre.rows)} :
            LET kept == SourcesOf(df.rows, scenario)
            IN  /\ Cardinality(kept) = 1
                /\ \A k \in kept : \A c \in SourcesOf(pre.rows, scenario) :
                     Popularity(pre.rows, scenario, k) >= Popularity(pre.rows, scenario, c)
                /\ RowsOf(df.rows, scenario)
                   = SelectRows(RowsOf(pre.rows, scenario),
                                {r \in RowSet(pre.rows) : r.source \in kept})

\* C7: clear_repeated_scenarios with a preferred source keeps, for a scenario
\* that has several sources of which one is the preferred source, the records
\* of the preferred source and drops those of its other sources.
C7_PreferredSourceKept ==
    (call.op = "clear_repeated_scenarios" /\ call.source_to_keep # <<>>) =>
        \A scenario \in {r.scenario : r \in RowSet(pre.rows)} :
            ( /\ Cardinality(SourcesOf(pre.rows, scenario)) > 1
              /\ call.source_to_keep \in SourcesOf(pre.rows, scenario) )
            => RowsOf(df.rows, scenario)
               = SelectRows(RowsOf(pre.rows, scenario),
                            {r \in RowSet(pre.rows) : r.source = call.source_to_keep})

C10_SourceResolution ==
    call.op = "add_aggregate" =>
        LET sources == {r.source : r \in RowSet(pre.rows)}
            given == call.agg_source_name
            reached == ExactlyOneFilter /\ ~SomeSingleton
        IN  /\ res # "ok" => df = pre
            /\ res = "ok" =>
                /\ SubSeq(df.rows, 1, Len(pre.rows)) = pre.rows
                /\ pre.columns \subseteq df.columns
                /\ Len(Appended) = Cardinality({pre.rows[i].model : i \in ComparedIdx})
                /\ \A r \in RowSet(Appended) :
                    /\ r.scenario = NewColName
                    /\ r.source = IF given # <<>> THEN given ELSE CHOOSE x \in sources : TRUE
                /\ given = <<>> => Cardinality(sources) = 1
            /\ (given = <<>> /\ Cardinality(sources) > 1) =>
                /\ res # "ok"
                /\ reached => res = "IOError"
            /\ (reached /\ (given # <<>> \/ Cardinality(sources) = 1)) => res = "ok"

\* an aggregate refused for its ambiguous source, the table left as it was
C10_Witness ==
    /\ call.op = "add_aggregate"
    /\ call.agg_source_name = <<>>
    /\ Cardinality({r.source : r \in RowSet(pre.rows)}) > 1
    /\ res = "IOError"
    /\ df = pre

=============================================================================
